---- MODULE Spec2Model ----
(***************************************************************************)
(* StreamStock AI: the event-processing core.                              *)
(*                                                                         *)
(* State: the three in-memory stores (products = Ledger, events = History, *)
(* alerts = Alert Registry), the Kafka topic logs with the consumer's      *)
(* offsets, the recommendation cache and the wall clock.                   *)
(*                                                                         *)
(* Time is counted in seconds (every duration of the source is a whole     *)
(* number of seconds).  Product fields that no decision reads (sku, name,  *)
(* category, warehouse, unitPrice, predictedStock7d, lastUpdated) and the  *)
(* free-text fields of events, alerts and recommendations are left out.    *)
(***************************************************************************)
EXTENDS Integers, Sequences, FiniteSets, TLC

VARIABLES
    phase,        \* "seeding" while seedData() runs, then "running"
    now,          \* the wall clock (Date.now()), in seconds
    products,     \* productStore.data : id -> Product
    events,       \* eventStore.data   : id -> Event
    alerts,       \* alertStore.data   : id -> Alert
    topics,       \* the Kafka log of every topic (a sequence of messages)
    offset,       \* the consumer group's position in every topic
    cache,        \* recommendationCache : key -> CacheEntry
    emitted,      \* the notifications broadcast by the last operation
    eventCount,   \* eventCount of generateHistoricalEvents
    sent,         \* number of messages sent so far (the messages' send order)
    steps,        \* number of inputs of the environment so far
    applied,      \* history variable: per product, the sum of the signed
                  \* quantities of the events processEvent was called with
    calls,        \* history variable: the generateRecommendations calls
    cleared,      \* history variable: clearCache ran since the last call
    forecast,     \* the last call of calculateSMAForecast, with its result
    currentConfig,      \* eventGenerator: the configuration
    generatorInterval,  \* eventGenerator: the timer of the generator, or Null
    timers,             \* the timers setInterval made, each cleared or not
    eventCounter        \* eventGenerator: the counter of the generated events

vars == <<phase, now, products, events, alerts, topics, offset, cache, emitted,
          eventCount, sent, steps, applied, calls, cleared, forecast,
         currentConfig, generatorInterval, timers, eventCounter>>

----------------------------------------------------------------------------
(* Bounds of the model *)

MaxSteps == 3         \* inputs of the environment: seeded events, requests
                      \* of the API, messages of other producers,
                      \* redeliveries, clock advances, cache clears
MaxCalls == 3         \* generateRecommendations calls

\* the quantities of the events posted to the API, and the stocks put
Qtys == {77}
PutStocks == {5}

----------------------------------------------------------------------------
(* Durations, in seconds *)

OneHour == 60 * 60
ThirtyDays == 30 * 24 * 60 * 60
CACHE_TTL_MS == 5 * 60

StartTime == 2 * OneHour

----------------------------------------------------------------------------
(* Data *)

\* the products in the order productStore holds them
ProductOrder == <<"p1", "p2">>
ProductIds == {ProductOrder[i] : i \in DOMAIN ProductOrder}
UnknownProduct == "px"

StockEventTypes == {"SALE", "RESTOCK", "RETURN"}
EventTypes == StockEventTypes \cup {"ALERT"}

Undefined == "undefined"

\* an optional Date that is not set
NoDate == [isDate |-> FALSE, t |-> 0]

\* generateProducts draws the base stock of a product from 100..499
baseStock == [p \in ProductIds |-> IF p = "p1" THEN 100 ELSE 110]

\* the product generateProducts makes of a base stock
generateProduct(id, stock) ==
    [id |-> id,
     currentStock |-> stock,
     reorderPoint |-> (3 * stock) \div 10,
     maxCapacity |-> stock * 2]

InitialProducts == [p \in ProductIds |-> generateProduct(p, baseStock[p])]

Date(t) == [isDate |-> TRUE, t |-> t]

\* a message value that is not JSON text
NotJSON == [notJSON |-> TRUE]

\* the id read from an event that has none
MissingId == <<"undefined", 0>>

\* JSON.stringify turns a Date into its ISO string; JSON.parse leaves the
\* string a string.
JSONRoundTrip(event) == [event EXCEPT !.timestamp = [isDate |-> FALSE, t |-> @.t]]

\* event.timestamp instanceof Date ? event.timestamp : new Date(event.timestamp)
eventDate(e) == e.timestamp.t

\* `e.timestamp >= date` for a Date `date`: a string timestamp is converted
\* to a number (NaN) and the comparison is false.
timestampGE(e, t) == e.timestamp.isDate /\ e.timestamp.t >= t

----------------------------------------------------------------------------
(* InMemoryStore<T> *)

Range(f) == {f[k] : k \in DOMAIN f}

create(data, item) ==
    [k \in DOMAIN data \cup {item.id} |-> IF k = item.id THEN item ELSE data[k]]

merge(existing, updates) ==
    [f \in DOMAIN existing \cup DOMAIN updates |->
        IF f \in DOMAIN updates THEN updates[f] ELSE existing[f]]

update(data, id, updates) ==
    IF id \notin DOMAIN data THEN data
    ELSE [data EXCEPT ![id] = merge(@, updates)]

\* ProductStore.updateStock
updateStock(data, productId, quantity) ==
    IF productId \notin DOMAIN data THEN data
    ELSE update(data, productId,
                [currentStock |-> data[productId].currentStock + quantity])

\* AlertStore.resolve
resolve(data, alertId, t) ==
    update(data, alertId, [resolved |-> TRUE, resolvedAt |-> Date(t)])

----------------------------------------------------------------------------
(* AIRecommendations *)

RECURSIVE sumQuantity(_)
sumQuantity(S) ==
    IF S = {} THEN 0
    ELSE LET e == CHOOSE x \in S : TRUE IN e.quantity + sumQuantity(S \ {e})

Min(a, b) == IF a <= b THEN a ELSE b
Max(a, b) == IF a >= b THEN a ELSE b

\* Math.round(n / d) for d > 0: the nearest integer, halves upwards
roundDiv(n, d) == (2 * n + d) \div (2 * d)

\* Math.ceil(n / d) for d > 0
ceilDiv(n, d) == -((-n) \div d)

\* calculateSalesVelocity returns totalSold / daysOfData, and daysOfData is 30
\* whenever a sale is counted; the velocity is kept as its numerator, the
\* total quantity sold in the trailing 30 days.
totalSold(productEvents, t) ==
    sumQuantity({e \in productEvents :
                    e.type = "SALE" /\ eventDate(e) >= t - ThirtyDays})

\* calculateReorderQuantity, with velocity = sold / 30:
\* max(round(min(sold * 1.2, maxCapacity - currentStock)), reorderPoint)
calculateReorderQuantity(product, sold) ==
    LET quantityWithBuffer5 == 6 * sold      \* five times sold * 1.2
        availableCapacity5 == 5 * (product.maxCapacity - product.currentStock)
        recommendedQuantity5 == Min(quantityWithBuffer5, availableCapacity5)
    IN  Max(roundDiv(recommendedQuantity5, 5), product.reorderPoint)

Null == [null |-> TRUE]
Infinity == [finite |-> FALSE, days |-> 0]

\* a faulty ladder, which asks for the 14 days before the reorder point
analyzeProductTrendFirst(product, allEvents, allAlerts, t) ==
    LET productEvents == {e \in allEvents : e.productId = product.id}
        productAlerts == {a \in allAlerts : a.productId = product.id /\ ~a.resolved}
        sold == totalSold(productEvents, t)
        stock == product.currentStock
        daysLT(n) == sold > 0 /\ 30 * stock < n * sold
        needsRecommendation ==
            \/ stock <= product.reorderPoint
            \/ daysLT(14)
            \/ productAlerts /= {}
            \/ 5 * stock < product.maxCapacity       \* stockPercentage < 20
        rule ==
            IF stock = 0 THEN <<"critical", 95, "URGENT: Restock immediately">>
            ELSE IF daysLT(3) THEN <<"critical", 90, "Expedite restock">>
            ELSE IF daysLT(7) THEN <<"high", 85, "Reorder this week">>
            ELSE IF daysLT(14) THEN <<"medium", 75, "Schedule reorder">>
            ELSE IF stock <= product.reorderPoint
                 THEN <<"high", 80, "Reorder - below reorder point">>
            ELSE <<"low", 70, "Monitor stock levels">>
    IN  IF ~needsRecommendation THEN Null
        ELSE [productId |-> product.id,
              recommendation |-> rule[3],
              priority |-> rule[1],
              estimatedDaysUntilStockout |->
                  IF sold > 0 THEN [finite |-> TRUE, days |-> ceilDiv(30 * stock, sold)]
                  ELSE Infinity,
              suggestedReorderQuantity |-> calculateReorderQuantity(product, sold),
              confidence |-> rule[2],
              generatedAt |-> t]

\* analyzeProduct.  daysUntilStockout = currentStock / (sold / 30) when
\* sold > 0, Infinity otherwise; `daysUntilStockout < n` is decided on
\* integers as 30 * currentStock < n * sold.
analyzeProduct(product, allEvents, allAlerts, t) ==
    LET productEvents == {e \in allEvents : e.productId = product.id}
        productAlerts == {a \in allAlerts : a.productId = product.id /\ ~a.resolved}
        sold == totalSold(productEvents, t)
        stock == product.currentStock
        daysLT(n) == sold > 0 /\ 30 * stock < n * sold
        needsRecommendation ==
            \/ stock <= product.reorderPoint
            \/ daysLT(14)
            \/ productAlerts /= {}
            \/ 5 * stock < product.maxCapacity       \* stockPercentage < 20
        rule ==
            IF stock = 0 THEN <<"critical", 95, "URGENT: Restock immediately">>
            ELSE IF daysLT(3) THEN <<"critical", 90, "Expedite restock">>
            ELSE IF daysLT(7) THEN <<"high", 85, "Reorder this week">>
            ELSE IF stock <= product.reorderPoint
                 THEN <<"high", 80, "Reorder - below reorder point">>
            ELSE IF daysLT(14) THEN <<"medium", 75, "Schedule reorder">>
            ELSE <<"low", 70, "Monitor stock levels">>
    IN  IF ~needsRecommendation THEN Null
        ELSE [productId |-> product.id,
              recommendation |-> rule[3],
              priority |-> rule[1],
              estimatedDaysUntilStockout |->
                  IF sold > 0 THEN [finite |-> TRUE, days |-> ceilDiv(30 * stock, sold)]
                  ELSE Infinity,
              suggestedReorderQuantity |-> calculateReorderQuantity(product, sold),
              confidence |-> rule[2],
              generatedAt |-> t]

\* getProductRecommendation
getProductRecommendation(productId, prods, evs, als, t) ==
    IF productId \notin {p.id : p \in prods} THEN Null
    ELSE analyzeProduct(CHOOSE p \in prods : p.id = productId, evs, als, t)

priorityOrder(priority) ==
    CASE priority = "critical" -> 0
      [] priority = "high" -> 1
      [] priority = "medium" -> 2
      [] priority = "low" -> 3

\* the comparator of recommendations.sort
compareRecommendations(a, b) ==
    LET priorityDiff == priorityOrder(a.priority) - priorityOrder(b.priority)
    IN  IF priorityDiff /= 0 THEN priorityDiff ELSE b.confidence - a.confidence

\* Array.prototype.sort is stable: x goes behind every element it does not
\* precede
RECURSIVE insertSorted(_, _)
insertSorted(sorted, x) ==
    IF sorted = <<>> THEN <<x>>
    ELSE IF compareRecommendations(x, Head(sorted)) < 0 THEN <<x>> \o sorted
    ELSE <<Head(sorted)>> \o insertSorted(Tail(sorted), x)

RECURSIVE sortRecommendations(_)
sortRecommendations(recs) ==
    IF recs = <<>> THEN <<>>
    ELSE insertSorted(sortRecommendations(SubSeq(recs, 1, Len(recs) - 1)),
                      recs[Len(recs)])

\* the loop of generateRecommendations over the products, in their order
RECURSIVE analyzeAll(_, _, _, _, _)
analyzeAll(prods, i, evs, als, t) ==
    IF i > Len(ProductOrder) THEN <<>>
    ELSE LET recommendation == analyzeProduct(prods[ProductOrder[i]], evs, als, t)
             rest == analyzeAll(prods, i + 1, evs, als, t)
         IN  IF recommendation /= Null THEN <<recommendation>> \o rest ELSE rest

\* generateRecommendations behind its cache check
computeRecommendations(prods, evs, als, t) ==
    sortRecommendations(analyzeAll(prods, 1, evs, als, t))

cacheKey == "all_recommendations"

\* a faulty cache check, which also serves a batch that is exactly
\* CACHE_TTL_MS old
cacheHitInclusive(c, t) ==
    /\ cacheKey \in DOMAIN c
    /\ t - c[cacheKey].timestamp <= CACHE_TTL_MS

\* cached && (Date.now() - cached.timestamp.getTime()) < CACHE_TTL_MS
cacheHit(c, t) ==
    /\ cacheKey \in DOMAIN c
    /\ t - c[cacheKey].timestamp < CACHE_TTL_MS

----------------------------------------------------------------------------
(* EventHandler.  The handler's steps are functions on a record            *)
(*   st = [products, events, alerts, emitted, delivers]                    *)
(* of the three stores, the notifications delivered so far and whether the *)
(* WebSocket server delivers what it is given during this call.            *)

Notify(name, payload) == [event |-> name, payload |-> payload]

\* a faulty broadcast, which takes the event out of the event store again
\* when its notification cannot be delivered
broadcastOrUndo(st, notification) ==
    IF st.delivers THEN [st EXCEPT !.emitted = Append(@, notification)]
    ELSE IF notification.event = "event:new"
    THEN [st EXCEPT !.events =
              [k \in DOMAIN @ \ {notification.payload} |-> @[k]]]
    ELSE st

\* broadcastEvent, broadcastProductUpdate, broadcastAlert,
\* broadcastAlertResolution: io.emit returns nothing and is not awaited; a
\* notification that is not delivered leaves no trace in the caller
broadcast(st, notification) ==
    IF st.delivers THEN [st EXCEPT !.emitted = Append(@, notification)]
    ELSE st

\* a faulty identifier source, which hands out the newest stored identifier
\* again
reusedId(data) == Max(1, Cardinality(DOMAIN data))

\* uuidv4(): an identifier no stored alert has
uuidv4(data) == Cardinality(DOMAIN data) + 1

\* a faulty lookup, which searches the resolved alerts instead of the active
\* ones
existingAlertResolved(data, productId, type) ==
    {a \in Range(data) : a.productId = productId /\ a.type = type /\ a.resolved}

\* the active alert of the same product and type that createAlert looks for
existingAlert(data, productId, type) ==
    {a \in Range(data) : a.productId = productId /\ a.type = type /\ ~a.resolved}

createAlert(st, product, severity, type, t) ==
    IF existingAlert(st.alerts, product.id, type) /= {} THEN st
    ELSE LET aiRecommendation ==
                 getProductRecommendation(product.id, Range(st.products),
                                          Range(st.events), Range(st.alerts), t)
             alert == [id |-> uuidv4(st.alerts),
                       productId |-> product.id,
                       severity |-> severity,
                       type |-> type,
                       aiRecommendation |->
                           IF aiRecommendation /= Null
                           THEN aiRecommendation.recommendation ELSE Undefined,
                       resolved |-> FALSE,
                       timestamp |-> t,
                       resolvedAt |-> NoDate]
         IN  broadcast([st EXCEPT !.alerts = create(@, alert)],
                       Notify("alert:new", alert.id))

RECURSIVE netChange(_)
netChange(S) ==
    IF S = {} THEN 0
    ELSE LET e == CHOOSE x \in S : TRUE
             d == IF e.type = "SALE" THEN -e.quantity
                  ELSE IF e.type \in {"RESTOCK", "RETURN"} THEN e.quantity
                  ELSE 0
         IN  d + netChange(S \ {e})

Abs(n) == IF n < 0 THEN -n ELSE n

\* checkRapidDepletion: netChange < 0 && |netChange| / stockAtStartOfHour > 0.3
\* (a division by zero gives Infinity, a negative divisor a negative ratio)
checkRapidDepletion(st, product, t) ==
    LET oneHourAgo == t - OneHour
        recentEvents == {e \in Range(st.events) :
                            e.productId = product.id /\ timestampGE(e, oneHourAgo)}
        net == netChange(recentEvents)
        stockAtStartOfHour == product.currentStock - net
    IN  /\ net < 0
        /\ \/ stockAtStartOfHour = 0
           \/ stockAtStartOfHour > 0 /\ 10 * Abs(net) > 3 * stockAtStartOfHour

\* a faulty switch, which resolves the reorder-point alerts only strictly
\* above the reorder point
shouldResolveAbove(type, product) ==
    CASE type = "CRITICAL_LOW_STOCK" -> product.currentStock >= 10
      [] type \in {"LOW_STOCK", "REORDER_NEEDED"} ->
             product.currentStock > product.reorderPoint
      [] type = "OVERSTOCK" -> 10 * product.currentStock <= 9 * product.maxCapacity
      [] OTHER -> FALSE

\* a faulty switch, which resolves a RAPID_DEPLETION alert once the stock is
\* back at the reorder point
shouldResolveDepletion(type, product) ==
    CASE type = "CRITICAL_LOW_STOCK" -> product.currentStock >= 10
      [] type \in {"LOW_STOCK", "REORDER_NEEDED", "RAPID_DEPLETION"} ->
             product.currentStock >= product.reorderPoint
      [] type = "OVERSTOCK" -> 10 * product.currentStock <= 9 * product.maxCapacity
      [] OTHER -> FALSE

\* the switch of autoResolveAlerts
shouldResolve(type, product) ==
    CASE type = "CRITICAL_LOW_STOCK" -> product.currentStock >= 10
      [] type \in {"LOW_STOCK", "REORDER_NEEDED"} ->
             product.currentStock >= product.reorderPoint
      [] type = "OVERSTOCK" -> 10 * product.currentStock <= 9 * product.maxCapacity
      [] OTHER -> FALSE

\* the alerts are visited in the order they were stored, which is the order
\* of their identifiers
RECURSIVE autoResolveFrom(_, _, _, _)
autoResolveFrom(st, product, t, i) ==
    IF i > Cardinality(DOMAIN st.alerts) THEN st
    ELSE LET alert == st.alerts[i]
             hit == /\ alert.productId = product.id
                    /\ ~alert.resolved
                    /\ shouldResolve(alert.type, product)
             st1 == IF hit
                    THEN broadcast([st EXCEPT !.alerts = resolve(@, alert.id, t)],
                                   Notify("alert:resolved", alert.id))
                    ELSE st
         IN  autoResolveFrom(st1, product, t, i + 1)

autoResolveAlerts(st, product, t) == autoResolveFrom(st, product, t, 1)

\* a faulty stock-level check, which raises the critical alert alone
checkStockLevelCriticalOnly(st, product, t) ==
    IF product.currentStock < 10 /\ product.currentStock >= 0
    THEN createAlert(st, product, "critical", "CRITICAL_LOW_STOCK", t)
    ELSE st

\* a faulty stock-level check, whose two alerts are independent
checkStockLevelBoth(st, product, t) ==
    LET s1 == IF product.currentStock < 10 /\ product.currentStock >= 0
              THEN createAlert(st, product, "critical", "CRITICAL_LOW_STOCK", t)
              ELSE st
    IN  IF product.currentStock < product.reorderPoint
        THEN createAlert(s1, product, "warning", "LOW_STOCK", t)
        ELSE s1

\* the stock-level check of checkAlertConditions: critical, else low
checkStockLevel(st, product, t) ==
    IF product.currentStock < 10 /\ product.currentStock >= 0
    THEN createAlert(st, product, "critical", "CRITICAL_LOW_STOCK", t)
    ELSE IF product.currentStock < product.reorderPoint
    THEN createAlert(st, product, "warning", "LOW_STOCK", t)
    ELSE st

\* currentStock > maxCapacity * 0.9
checkOverstock(st, product, t) ==
    IF 10 * product.currentStock > 9 * product.maxCapacity
    THEN createAlert(st, product, "info", "OVERSTOCK", t)
    ELSE st

checkDepletion(st, product, event, t) ==
    IF event.type = "SALE" /\ checkRapidDepletion(st, product, t)
    THEN createAlert(st, product, "warning", "RAPID_DEPLETION", t)
    ELSE st

checkReorder(st, product, t) ==
    IF product.currentStock <= product.reorderPoint /\ product.currentStock > 0
    THEN createAlert(st, product, "warning", "REORDER_NEEDED", t)
    ELSE st

\* the checks of checkAlertConditions run in this order, each on the stores
\* the one before it left
checkAlertConditions(st, product, event, t) ==
    autoResolveAlerts(
        checkReorder(
            checkDepletion(
                checkOverstock(checkStockLevel(st, product, t), product, t),
                product, event, t),
            product, t),
        product, t)

\* a faulty switch, which takes a RETURN out of the stock
stockChangeReturnOut(event) ==
    CASE event.type = "SALE" -> -event.quantity
      [] event.type = "RESTOCK" -> event.quantity
      [] event.type = "RETURN" -> -event.quantity
      [] OTHER -> 0

\* the switch of processEvent (its default branch returns before the value
\* is used)
stockChange(event) ==
    CASE event.type = "SALE" -> -event.quantity
      [] event.type = "RESTOCK" -> event.quantity
      [] event.type = "RETURN" -> event.quantity
      [] OTHER -> 0

processEvent(st, event, t) ==
    LET s1 == broadcast([st EXCEPT !.events = create(@, event)],
                        Notify("event:new", event.id))
    IN  IF event.productId \notin DOMAIN s1.products THEN s1
        ELSE IF event.type \notin {"SALE", "RESTOCK", "RETURN"} THEN s1
        ELSE LET s2 == [s1 EXCEPT !.products =
                                      updateStock(@, event.productId, stockChange(event))]
                 updatedProduct == s2.products[event.productId]
                 s3 == broadcast(s2, Notify("product:update", updatedProduct.id))
             IN  checkAlertConditions(s3, updatedProduct, event, t)

----------------------------------------------------------------------------
(* Forecasting: the simple moving average of the daily stock changes *)

OneDay == 24 * OneHour

\* eventDate.toISOString().split('T')[0]: the UTC day of the event
dayKey(e) == eventDate(e) \div OneDay

\* the switch of calculateDailyStockChanges
dailyChange(e) ==
    CASE e.type = "SALE" -> -e.quantity
      [] e.type = "RESTOCK" -> e.quantity
      [] e.type = "RETURN" -> e.quantity
      [] OTHER -> 0

RECURSIVE sumChanges(_)
sumChanges(S) ==
    IF S = {} THEN 0
    ELSE LET e == CHOOSE x \in S : TRUE
         IN  dailyChange(e) + sumChanges(S \ {e})

\* a faulty grouping, which takes the events of every age
calculateDailyStockChangesUnbounded(productEvents, days, t) ==
    [k \in {dayKey(e) : e \in productEvents} |->
        sumChanges({e \in productEvents : dayKey(e) = k})]

\* calculateDailyStockChanges(events, days), called at time t: the changes of
\* the events since t - days, summed by day; the array of the code is the
\* function from the day to its sum
calculateDailyStockChanges(productEvents, days, t) ==
    LET startDate == t - days * OneDay
        recent == {e \in productEvents : eventDate(e) >= startDate}
    IN  [k \in {dayKey(e) : e \in recent} |->
            sumChanges({e \in recent : dayKey(e) = k})]

\* values.reduce((sum, val) => sum + val, 0)
RECURSIVE reduceSum(_, _)
reduceSum(values, keys) ==
    IF keys = {} THEN 0
    ELSE LET k == CHOOSE x \in keys : TRUE
         IN  values[k] + reduceSum(values, keys \ {k})

\* the sum of the squares of the values
RECURSIVE reduceSquares(_, _)
reduceSquares(values, keys) ==
    IF keys = {} THEN 0
    ELSE LET k == CHOOSE x \in keys : TRUE
         IN  values[k] * values[k] + reduceSquares(values, keys \ {k})

\* Math.round(100 * Math.max(0.1, Math.min(0.95, 1 - cv))) for the
\* coefficient of variation cv = sqrt(d) / |sum|, where d = n * squares - sum^2
\* (the variance is d / n^2 and the mean sum / n): the result is at least k
\* when 1 - cv >= (2k - 1) / 200, that is 40000 * d <= (201 - 2k)^2 * sum^2.
\* A mean of zero gives cv = 1.
clampedHundredths(sum, d) ==
    LET atLeast(k) == /\ sum /= 0
                      /\ 40000 * d <= (201 - 2 * k) * (201 - 2 * k) * sum * sum
    IN  CHOOSE k \in 10..95 :
            /\ k = 10 \/ atLeast(k)
            /\ k = 95 \/ ~atLeast(k + 1)

\* a faulty confidence, which has no lower limit
unclampedHundredths(sum, d) ==
    LET atLeast(k) == /\ sum /= 0
                      /\ 40000 * d <= (201 - 2 * k) * (201 - 2 * k) * sum * sum
    IN  CHOOSE k \in 0..95 :
            /\ k = 0 \/ atLeast(k)
            /\ k = 95 \/ ~atLeast(k + 1)

\* a faulty confidence, without the lower limit of 0.1
calculateConfidenceUnclamped(values) ==
    LET n == Cardinality(DOMAIN values)
        sum == reduceSum(values, DOMAIN values)
        squares == reduceSquares(values, DOMAIN values)
    IN  IF n < 2 THEN 50
        ELSE unclampedHundredths(sum, n * squares - sum * sum)

\* calculateConfidence(values), in hundredths
calculateConfidence(values) ==
    LET n == Cardinality(DOMAIN values)
        sum == reduceSum(values, DOMAIN values)
        squares == reduceSquares(values, DOMAIN values)
    IN  IF n < 2 THEN 50
        ELSE clampedHundredths(sum, n * squares - sum * sum)

\* the result of calculateSMAForecast for the daily changes of the product;
\* avgDailyChange is sum / n, and 0 when there is no day
forecastOf(product, dailyChanges, daysToForecast, t) ==
    LET n == Max(1, Cardinality(DOMAIN dailyChanges))
        sum == reduceSum(dailyChanges, DOMAIN dailyChanges)
        \* n * predictedStock and n * predictedDemand
        stockTimesN == Max(0, n * product.currentStock + sum * daysToForecast)
        demandTimesN == Abs(sum * daysToForecast)
    IN  [productId |-> product.id,
         currentStock |-> product.currentStock,
         predictedStock7d |-> roundDiv(stockTimesN, n),
         predictedDemand7d |-> roundDiv(demandTimesN, n),
         reorderRecommended |-> stockTimesN < n * product.reorderPoint,
         confidence |-> calculateConfidence(dailyChanges),
         forecastDate |-> t]

\* calculateSMAForecast(product, events, daysToForecast), called at time t
calculateSMAForecast(product, allEvents, daysToForecast, t) ==
    LET productEvents == {e \in allEvents : e.productId = product.id}
        historicalDays == 30
    IN  forecastOf(product,
                   calculateDailyStockChanges(productEvents, historicalDays, t),
                   daysToForecast, t)

NoForecast == [called |-> FALSE]

----------------------------------------------------------------------------
(* eventGenerator.  The state of the module is the record                  *)
(*   g = [currentConfig, generatorInterval, timers]                        *)

\* the weights are in hundredths
DEFAULT_CONFIG ==
    [eventsPerMinute |-> 10, salesWeight |-> 65, restockWeight |-> 25,
     returnWeight |-> 10, enabled |-> TRUE]

\* the timers that were not cleared
liveTimers(allTimers) == {i \in DOMAIN allTimers : ~allTimers[i].cleared}

\* startEventGenerator(config); config is <<>> when the argument is omitted
startEventGenerator(g, config) ==
    IF g.generatorInterval /= Null THEN g
    ELSE LET merged == merge(DEFAULT_CONFIG, config)
             intervalMs == (60 * 1000) \div merged.eventsPerMinute
         IN  [currentConfig |-> merged,
              generatorInterval |-> [timer |-> Len(g.timers) + 1],
              timers |-> Append(g.timers, [intervalMs |-> intervalMs,
                                           cleared |-> FALSE])]

\* stopEventGenerator()
stopEventGenerator(g) ==
    IF g.generatorInterval /= Null
    THEN [g EXCEPT !.timers[g.generatorInterval.timer].cleared = TRUE,
                   !.generatorInterval = Null]
    ELSE g

\* updateConfig(config)
updateConfig(g, config) ==
    LET oldRate == g.currentConfig.eventsPerMinute
        g1 == [g EXCEPT !.currentConfig = merge(@, config)]
    IN  IF oldRate /= g1.currentConfig.eventsPerMinute /\ g1.generatorInterval /= Null
        THEN startEventGenerator(stopEventGenerator(g1), <<>>)
        ELSE g1

\* selectEventType, for Math.random() = rand / 100
selectEventType(config, rand) ==
    IF rand < config.salesWeight THEN "SALE"
    ELSE IF rand < config.salesWeight + config.restockWeight THEN "RESTOCK"
    ELSE "RETURN"

\* generateQuantity, for Math.random() = rand / 100
generateQuantity(eventType, product, rand) ==
    CASE eventType = "SALE" ->
             ((rand * Min(10, product.currentStock)) \div 100) + 1
      [] eventType = "RESTOCK" ->
             Max(100, (7 * product.maxCapacity - 10 * product.currentStock) \div 10)
      [] eventType = "RETURN" -> ((rand * 5) \div 100) + 1
      [] OTHER -> 1

----------------------------------------------------------------------------
(* Kafka: producer and transport *)

Topics == {"inventory.sales", "inventory.restocks", "inventory.returns",
           "inventory.alerts"}

getTopicForEventType(eventType) ==
    CASE eventType = "SALE" -> "inventory.sales"
      [] eventType = "RESTOCK" -> "inventory.restocks"
      [] eventType = "RETURN" -> "inventory.returns"
      [] eventType = "ALERT" -> "inventory.alerts"
      [] OTHER -> "inventory.events"

\* sendEvent: the message is keyed by the product and appended to the log of
\* the topic of the event's type; seq records the order of the sends.
sendEvent(logs, event, seq) ==
    LET topic == getTopicForEventType(event.type)
        message == [key |-> event.productId,
                    value |-> JSONRoundTrip(event),
                    seq |-> seq]
    IN  [logs EXCEPT ![topic] = Append(@, message)]

----------------------------------------------------------------------------
(* The state machine *)

\* the stores at the start of a call during which the WebSocket server
\* delivers, or does not
StoresWhen(delivers) ==
    [products |-> products, events |-> events, alerts |-> alerts,
     emitted |-> <<>>, delivers |-> delivers]

Stores == StoresWhen(TRUE)

\* the signed quantity of an event: minus for a SALE, plus for a RESTOCK or a
\* RETURN, nothing for another type
SignedQuantity(event) ==
    IF event.type = "SALE" THEN -event.quantity
    ELSE IF event.type \in {"RESTOCK", "RETURN"} THEN event.quantity
    ELSE 0

Init ==
    /\ phase = "seeding"
    /\ now = StartTime
    /\ products = InitialProducts
    /\ events = <<>>
    /\ alerts = <<>>
    /\ topics = [t \in Topics |-> <<>>]
    /\ offset = [t \in Topics |-> 0]
    /\ cache = <<>>
    /\ emitted = <<>>
    /\ eventCount = 0
    /\ sent = 0
    /\ steps = 0
    /\ calls = <<>>
    /\ cleared = FALSE
    /\ forecast = NoForecast
    /\ currentConfig = DEFAULT_CONFIG
    /\ generatorInterval = Null
    /\ timers = <<>>
    /\ eventCounter = 0
    /\ applied = [p \in ProductIds |-> 0]

\* eventHandler.processEvent(event), called at time now
ProcessWhen(event, delivers) ==
    LET st == processEvent(StoresWhen(delivers), event, now)
    IN  /\ products' = st.products
        /\ events' = st.events
        /\ alerts' = st.alerts
        /\ emitted' = st.emitted
        /\ applied' = IF event.productId \in DOMAIN applied
                      THEN [applied EXCEPT ![event.productId] = @ + SignedQuantity(event)]
                      ELSE applied

Process(event) == ProcessWhen(event, TRUE)

Input ==
    /\ steps < MaxSteps
    /\ steps' = steps + 1

\* generateHistoricalEvents: one iteration of its loop
SeedEvent(type, productId, quantity, age) ==
    /\ phase = "seeding"
    /\ Input
    /\ eventCount' = eventCount + 1
    /\ LET event == [id |-> <<"EVT", eventCount + 1>>,
                     type |-> type,
                     productId |-> productId,
                     quantity |-> quantity,
                     timestamp |-> Date(now - age)]
       IN  Process(event)
    /\ UNCHANGED <<phase, now, topics, offset, cache, sent,
                   calls, cleared, forecast,
                   currentConfig, generatorInterval, timers, eventCounter>>

\* main(): seedData() has returned, the consumer runs
StartConsuming ==
    /\ phase = "seeding"
    /\ phase' = "running"
    /\ emitted' = <<>>
    /\ UNCHANGED <<now, products, events, alerts, topics, offset, cache,
                   eventCount, sent, steps, applied,
                   calls, cleared, forecast,
                   currentConfig, generatorInterval, timers, eventCounter>>

\* router.post('/events')
PostEvent(type, productId, quantity) ==
    /\ phase = "running"
    /\ Input
    /\ productId \in DOMAIN products
    /\ LET event == [id |-> <<"EVT-API", now>>,
                     type |-> type,
                     productId |-> productId,
                     quantity |-> quantity,
                     timestamp |-> Date(now)]
       IN  topics' = sendEvent(topics, event, sent + 1)
    /\ sent' = sent + 1
    /\ emitted' = <<>>
    /\ UNCHANGED <<phase, now, products, events, alerts, offset, cache,
                   eventCount, applied,
                   calls, cleared, forecast,
                   currentConfig, generatorInterval, timers, eventCounter>>

\* a message sent by another instance of the producer (an earlier run, whose
\* products were others): its product is not in this run's productStore
ForeignEvent(type, quantity) ==
    /\ phase = "running"
    /\ Input
    /\ LET event == [id |-> <<"EVT-GEN", sent + 1>>,
                     type |-> type,
                     productId |-> UnknownProduct,
                     quantity |-> quantity,
                     timestamp |-> Date(now)]
       IN  topics' = sendEvent(topics, event, sent + 1)
    /\ sent' = sent + 1
    /\ emitted' = <<>>
    /\ UNCHANGED <<phase, now, products, events, alerts, offset, cache,
                   eventCount, applied,
                   calls, cleared, forecast,
                   currentConfig, generatorInterval, timers, eventCounter>>

\* a message of another producer whose event lacks a field: JSON.parse
\* gives an object on which that field reads undefined
IncompleteMessage(field, productId, quantity) ==
    /\ phase = "running"
    /\ Input
    /\ LET event == [id |-> IF field = "id" THEN MissingId ELSE <<"EVT-GEN", sent + 1>>,
                     type |-> IF field = "type" THEN Undefined ELSE "SALE",
                     productId |-> productId,
                     quantity |-> quantity,
                     timestamp |-> Date(now)]
           message == [key |-> productId, value |-> JSONRoundTrip(event),
                       seq |-> sent + 1]
       IN  topics' = [topics EXCEPT !["inventory.sales"] = Append(@, message)]
    /\ sent' = sent + 1
    /\ emitted' = <<>>
    /\ UNCHANGED <<phase, now, products, events, alerts, offset, cache,
                   eventCount, applied, calls, cleared, forecast,
                   currentConfig, generatorInterval, timers, eventCounter>>

\* a message of another producer whose value is not JSON text
UnparsableMessage(topic) ==
    /\ phase = "running"
    /\ Input
    /\ topics' = [topics EXCEPT ![topic] =
                      Append(@, [key |-> UnknownProduct, value |-> NotJSON,
                                 seq |-> sent + 1])]
    /\ sent' = sent + 1
    /\ emitted' = <<>>
    /\ UNCHANGED <<phase, now, products, events, alerts, offset, cache,
                   eventCount, applied, calls, cleared, forecast,
                   currentConfig, generatorInterval, timers, eventCounter>>

\* router.put('/products/:id') with body {currentStock: stock}
PutProduct(productId, stock) ==
    /\ phase = "running"
    /\ Input
    /\ productId \in DOMAIN products
    /\ LET oldProduct == products[productId]
           updates == [currentStock |-> stock]
           changed == updates.currentStock /= oldProduct.currentStock
           change == updates.currentStock - oldProduct.currentStock
           event == [id |-> <<"EVT-API", now>>,
                     type |-> IF change > 0 THEN "RESTOCK" ELSE "SALE",
                     productId |-> productId,
                     quantity |-> Abs(change),
                     timestamp |-> Date(now)]
       IN  /\ products' = update(products, productId, updates)
           /\ topics' = IF changed THEN sendEvent(topics, event, sent + 1) ELSE topics
           /\ sent' = IF changed THEN sent + 1 ELSE sent
    /\ emitted' = <<>>
    /\ UNCHANGED <<phase, now, events, alerts, offset, cache, eventCount, applied,
                   calls, cleared, forecast,
                   currentConfig, generatorInterval, timers, eventCounter>>

\* processMessage: JSON.parse and processEvent run inside a try whose catch
\* logs the error and returns
processMessage(message, delivers) ==
    IF message.value = NotJSON
    THEN UNCHANGED <<products, events, alerts, applied>> /\ emitted' = <<>>
    ELSE ProcessWhen(message.value, delivers)

\* consumer.run eachMessage -> processMessage, for the next message of a
\* topic; eachMessage returns, and the offset moves past the message
ConsumeWhen(topic, delivers) ==
    /\ phase = "running"
    /\ offset[topic] < Len(topics[topic])
    /\ processMessage(topics[topic][offset[topic] + 1], delivers)
    /\ offset' = [offset EXCEPT ![topic] = @ + 1]
    /\ UNCHANGED <<phase, now, topics, cache, eventCount, sent, steps,
                   calls, cleared, forecast,
                   currentConfig, generatorInterval, timers, eventCounter>>

Consume(topic) == ConsumeWhen(topic, TRUE)

\* at-least-once delivery: the last message consumed from a topic is
\* delivered again (its offset was not committed before a rebalance)
Redeliver(topic) ==
    /\ phase = "running"
    /\ Input
    /\ offset[topic] > 0
    /\ processMessage(topics[topic][offset[topic]], TRUE)
    /\ UNCHANGED <<phase, now, topics, offset, cache, eventCount, sent,
                   calls, cleared, forecast,
                   currentConfig, generatorInterval, timers, eventCounter>>

\* router.post('/alerts/:id/resolve')
ResolveAlert(alertId) ==
    /\ phase = "running"
    /\ Input
    /\ alerts' = resolve(alerts, alertId, now)
    /\ emitted' = <<>>
    /\ UNCHANGED <<phase, now, products, events, topics, offset, cache,
                   eventCount, sent, applied,
                   calls, cleared, forecast,
                   currentConfig, generatorInterval, timers, eventCounter>>

\* generateRecommendations(productStore.getAll(), eventStore.getAll(),
\*                         alertStore.getAll())
GenerateRecommendations ==
    /\ phase = "running"
    /\ Len(calls) < MaxCalls
    /\ LET fresh == computeRecommendations(products, Range(events), Range(alerts), now)
           result == IF cacheHit(cache, now) THEN cache[cacheKey].recommendations
                     ELSE fresh
       IN  /\ cache' = IF cacheHit(cache, now) THEN cache
                       ELSE [all_recommendations |->
                                [recommendations |-> result, timestamp |-> now]]
           /\ calls' = Append(calls, [at |-> now, cleared |-> cleared,
                                      result |-> result, fresh |-> fresh])
    /\ cleared' = FALSE
    /\ emitted' = <<>>
    /\ UNCHANGED <<phase, now, products, events, alerts, topics, offset,
                   eventCount, sent, steps, applied, forecast,
                   currentConfig, generatorInterval, timers, eventCounter>>

\* clearCache()
ClearCache ==
    /\ phase = "running"
    /\ Input
    /\ cache' = <<>>
    /\ cleared' = TRUE
    /\ emitted' = <<>>
    /\ UNCHANGED <<phase, now, products, events, alerts, topics, offset,
                   eventCount, sent, applied, calls, forecast,
                   currentConfig, generatorInterval, timers, eventCounter>>

\* router.get('/forecast') with a productId and days
GetForecast(productId, days) ==
    /\ phase = "running"
    /\ productId \in DOMAIN products
    /\ forecast' = [called |-> TRUE,
                    product |-> products[productId],
                    events |-> Range(events),
                    days |-> days,
                    at |-> now,
                    result |-> calculateSMAForecast(products[productId],
                                                    Range(events), days, now)]
    /\ emitted' = <<>>
    /\ UNCHANGED <<phase, now, products, events, alerts, topics, offset, cache,
                   eventCount, sent, steps, applied, calls, cleared,
                   currentConfig, generatorInterval, timers, eventCounter>>

\* the state of the eventGenerator module
Generator ==
    [currentConfig |-> currentConfig, generatorInterval |-> generatorInterval,
     timers |-> timers]

SetGenerator(g) ==
    /\ currentConfig' = g.currentConfig
    /\ generatorInterval' = g.generatorInterval
    /\ timers' = g.timers

\* main(): startEventGenerator({eventsPerMinute: 10, enabled: true})
StartEventGenerator(config) ==
    /\ phase = "running"
    /\ Input
    /\ SetGenerator(startEventGenerator(Generator, config))
    /\ emitted' = <<>>
    /\ UNCHANGED <<phase, now, products, events, alerts, topics, offset, cache,
                   eventCount, sent, applied, calls, cleared, forecast,
                   eventCounter>>

\* shutdown: stopEventGenerator()
StopEventGenerator ==
    /\ phase = "running"
    /\ Input
    /\ SetGenerator(stopEventGenerator(Generator))
    /\ emitted' = <<>>
    /\ UNCHANGED <<phase, now, products, events, alerts, topics, offset, cache,
                   eventCount, sent, applied, calls, cleared, forecast,
                   eventCounter>>

\* updateConfig(config)
UpdateConfig(config) ==
    /\ phase = "running"
    /\ Input
    /\ SetGenerator(updateConfig(Generator, config))
    /\ emitted' = <<>>
    /\ UNCHANGED <<phase, now, products, events, alerts, topics, offset, cache,
                   eventCount, sent, applied, calls, cleared, forecast,
                   eventCounter>>

\* a timer that was not cleared fires: the callback of setInterval, and
\* generateAndSendEvent when the configuration is enabled
TimerFires(timer, productId, typeRand, quantityRand) ==
    /\ phase = "running"
    /\ Input
    /\ timer \in liveTimers(timers)
    /\ productId \in DOMAIN products
    /\ LET eventType == selectEventType(currentConfig, typeRand)
           event == [id |-> <<"EVT-GEN", eventCounter + 1>>,
                     type |-> eventType,
                     productId |-> productId,
                     quantity |-> generateQuantity(eventType, products[productId],
                                                   quantityRand),
                     timestamp |-> Date(now)]
       IN  IF currentConfig.enabled
           THEN /\ topics' = sendEvent(topics, event, sent + 1)
                /\ sent' = sent + 1
                /\ eventCounter' = eventCounter + 2
           ELSE UNCHANGED <<topics, sent, eventCounter>>
    /\ emitted' = <<>>
    /\ UNCHANGED <<phase, now, products, events, alerts, offset, cache,
                   eventCount, applied, calls, cleared, forecast,
                   currentConfig, generatorInterval, timers>>

\* time passes
Tick(d) ==
    /\ phase = "running"
    /\ Input
    /\ now' = now + d
    /\ UNCHANGED <<phase, products, events, alerts, topics, offset, cache, emitted,
                   eventCount, sent, applied,
                   calls, cleared, forecast,
                   currentConfig, generatorInterval, timers, eventCounter>>

SeedAges == {1, OneHour + 1}
SeedTypes == {"SALE", "RESTOCK"}

\* generateQuantity of the seeding: 1..10 for a SALE, 100..299 for a
\* RESTOCK, 1..5 for a RETURN
SeedQtys(type) ==
    CASE type = "SALE" -> {10}
      [] type = "RESTOCK" -> {100}
      [] type = "RETURN" -> {5}
ForeignTypes == {"RESTOCK"}
CacheTickSteps == {1, CACHE_TTL_MS - 1}

Next ==
    \/ \E type \in SeedTypes, p \in ProductIds, age \in SeedAges :
           \E q \in SeedQtys(type) :
               SeedEvent(type, p, q, age)
    \/ StartConsuming
    \/ \E type \in EventTypes, p \in ProductIds, q \in Qtys : PostEvent(type, p, q)
    \/ \E type \in ForeignTypes, q \in Qtys : ForeignEvent(type, q)
    \/ \E p \in ProductIds, stock \in PutStocks : PutProduct(p, stock)
    \/ \E topic \in Topics : Consume(topic)
    \/ \E topic \in Topics : Redeliver(topic)
    \/ \E alertId \in 1..(Cardinality(DOMAIN alerts) + 1) : ResolveAlert(alertId)
    \/ Tick(OneHour)

\* the whole system
Spec == Init /\ [][Next]_vars

NextEvents ==
    \/ \E type \in SeedTypes, p \in ProductIds, age \in SeedAges :
           \E q \in SeedQtys(type) :
               SeedEvent(type, p, q, age)
    \/ StartConsuming
    \/ \E type \in EventTypes, p \in ProductIds, q \in Qtys : PostEvent(type, p, q)
    \/ \E type \in ForeignTypes, q \in Qtys : ForeignEvent(type, q)
    \/ \E topic \in Topics : Consume(topic)
    \/ \E topic \in Topics : Redeliver(topic)
    \/ \E alertId \in 1..(Cardinality(DOMAIN alerts) + 1) : ResolveAlert(alertId)
    \/ Tick(OneHour)

\* the system without the product update of the API: the products change
\* through processEvent alone
SpecEvents == Init /\ [][NextEvents]_vars

NextCache ==
    \/ StartConsuming
    \/ \E p \in ProductIds, stock \in PutStocks : PutProduct(p, stock)
    \/ \E topic \in Topics : Consume(topic)
    \/ \E d \in CacheTickSteps : Tick(d)
    \/ GenerateRecommendations
    \/ ClearCache

\* the recommendation cache: calls, clears and the passing of time, while
\* the stores change under it
SpecCache == Init /\ [][NextCache]_vars

IncompleteFields == {"id", "type"}
UnparsableTopics == {"inventory.sales"}
FaultTypes == {"SALE", "RESTOCK"}

NextFaults ==
    \/ StartConsuming
    \/ \E type \in FaultTypes, p \in ProductIds, q \in Qtys : PostEvent(type, p, q)
    \/ \E field \in IncompleteFields, p \in ProductIds, q \in Qtys :
           IncompleteMessage(field, p, q)
    \/ \E topic \in UnparsableTopics : UnparsableMessage(topic)
    \/ \E topic \in Topics, delivers \in BOOLEAN : ConsumeWhen(topic, delivers)

\* the consumer under faults: notifications that are not delivered, and
\* messages of other producers that are incomplete or not JSON
SpecFaults == Init /\ [][NextFaults]_vars

\* the forecasts of the seeded history
ForecastAges == {1, OneDay + 1, ThirtyDays - 1}
ForecastTypes == {"SALE", "RETURN"}
ForecastDays == {7}

NextForecast ==
    \/ \E type \in ForecastTypes, p \in ProductIds, age \in ForecastAges :
           \E q \in SeedQtys(type) :
               SeedEvent(type, p, q, age)
    \/ StartConsuming
    \/ \E p \in ProductIds, days \in ForecastDays : GetForecast(p, days)
    \/ Tick(OneHour)

SpecForecast == Init /\ [][NextForecast]_vars

\* the recommendations over a history of seeded and posted events
RecommendTypes == {"SALE"}
RecommendQtys == {69, 77, 100}

NextRecommend ==
    \/ \E type \in SeedTypes, p \in ProductIds, age \in SeedAges :
           \E q \in SeedQtys(type) :
               SeedEvent(type, p, q, age)
    \/ StartConsuming
    \/ \E type \in RecommendTypes, p \in ProductIds, q \in RecommendQtys :
           PostEvent(type, p, q)
    \/ \E topic \in Topics : Consume(topic)
    \/ GenerateRecommendations

SpecRecommend == Init /\ [][NextRecommend]_vars

\* the alerts of large sales posted through the API
AlertQtys == {95}

NextAlerts ==
    \/ StartConsuming
    \/ \E type \in EventTypes, p \in ProductIds, q \in AlertQtys : PostEvent(type, p, q)
    \/ \E topic \in Topics : Consume(topic)
    \/ \E alertId \in 1..(Cardinality(DOMAIN alerts) + 1) : ResolveAlert(alertId)

SpecAlerts == Init /\ [][NextAlerts]_vars

\* the event generator: started by main, reconfigured, stopped, its timers
\* firing
MainConfig == [eventsPerMinute |-> 10, enabled |-> TRUE]
UpdateConfigs ==
    {[enabled |-> FALSE],
     [salesWeight |-> 50, restockWeight |-> 40],
     [eventsPerMinute |-> 20],
     [eventsPerMinute |-> 20, enabled |-> FALSE]}
GeneratorRands == {0, 70, 95}

NextGenerator ==
    \/ StartConsuming
    \/ StartEventGenerator(MainConfig)
    \/ StopEventGenerator
    \/ \E config \in UpdateConfigs : UpdateConfig(config)
    \/ \E timer \in DOMAIN timers, p \in ProductIds :
           \E typeRand \in GeneratorRands, quantityRand \in GeneratorRands :
               TimerFires(timer, p, typeRand, quantityRand)
    \/ \E topic \in Topics : Consume(topic)

SpecGenerator == Init /\ [][NextGenerator]_vars

----------------------------------------------------------------------------
(* Properties *)

AlertTypes == {"LOW_STOCK", "CRITICAL_LOW_STOCK", "OVERSTOCK", "RAPID_DEPLETION",
               "REORDER_NEEDED"}

ReorderPointAlerts == {"LOW_STOCK", "REORDER_NEEDED"}

Unresolved(productId, type) ==
    {i \in DOMAIN alerts : /\ alerts[i].productId = productId
                           /\ alerts[i].type = type
                           /\ ~alerts[i].resolved}

StoredEvents(productId, types) ==
    {e \in Range(events) : e.productId = productId /\ e.type \in types}

\* a step in which eventHandler.processEvent runs
ProcessStep ==
    \/ \E type \in SeedTypes, p \in ProductIds, age \in SeedAges :
           \E q \in SeedQtys(type) :
               SeedEvent(type, p, q, age)
    \/ \E topic \in Topics : Consume(topic)
    \/ \E topic \in Topics : Redeliver(topic)

\* C1: at any time there is at most one unresolved alert for a pair of a
\* product and an alert type.
OneActiveAlertPerProductAndType ==
    \A p \in ProductIds, type \in AlertTypes : Cardinality(Unresolved(p, type)) <= 1

\* two sales of p1 were processed, both leaving its stock below the reorder
\* point, and one LOW_STOCK alert stands for them
OneActiveAlertWitness ==
    /\ applied["p1"] = -2 * 77
    /\ products["p1"].currentStock = baseStock["p1"] - 2 * 77
    /\ Cardinality({i \in DOMAIN alerts : /\ alerts[i].productId = "p1"
                                          /\ alerts[i].type = "LOW_STOCK"}) = 1
    /\ Cardinality(Unresolved("p1", "LOW_STOCK")) = 1

\* C2: after any sequence of processEvent calls the stock of a product is its
\* initial stock plus the sum of the signed quantities of the events of that
\* product (SALE negative, RESTOCK and RETURN positive).
StockIsInitialPlusDeltas ==
    \A p \in ProductIds :
        products[p].currentStock = InitialProducts[p].currentStock + applied[p]

\* a product whose stock moved, after sales and restocks or returns
StockIsInitialPlusDeltasWitness ==
    \E p \in ProductIds :
        /\ StoredEvents(p, {"SALE"}) /= {}
        /\ StoredEvents(p, {"RESTOCK", "RETURN"}) /= {}
        /\ applied[p] /= 0
        /\ products[p].currentStock /= InitialProducts[p].currentStock

\* C3: the stock of a product is never negative.
StockNeverNegative ==
    \A p \in ProductIds : products[p].currentStock >= 0

\* C4: processing again an event whose id was processed before changes
\* neither the stocks nor the alerts.
ReprocessingIsNoOp ==
    [][\A topic \in Topics :
          (/\ Redeliver(topic)
           /\ LET event == topics[topic][offset[topic]].value
              IN  event.id \in DOMAIN events /\ events[event.id] = event)
          => (products' = products /\ alerts' = alerts)]_vars

\* C5: an alert only ever goes from unresolved to resolved: a stored alert
\* keeps its identifier, product and type, a resolved alert stays resolved,
\* and a condition that comes back is recorded under a new identifier.
AlertsOnlyResolve ==
    [][\A i \in DOMAIN alerts :
          /\ i \in DOMAIN alerts'
          /\ alerts'[i].id = alerts[i].id
          /\ alerts'[i].productId = alerts[i].productId
          /\ alerts'[i].type = alerts[i].type
          /\ alerts'[i].timestamp = alerts[i].timestamp
          /\ alerts[i].resolved => alerts'[i].resolved]_vars

\* a condition came back after its alert was resolved: the resolved alert
\* and a newer active one of the same product and type
AlertsOnlyResolveWitness ==
    \E i, j \in DOMAIN alerts :
        /\ i < j
        /\ alerts[i].productId = alerts[j].productId
        /\ alerts[i].type = alerts[j].type
        /\ alerts[i].resolved
        /\ ~alerts[j].resolved

\* C6: when a processed event brings the stock of a product to or above its
\* reorder point, no LOW_STOCK or REORDER_NEEDED alert of that product is
\* left unresolved.
ReorderPointAlertsResolved ==
    [][\A p \in ProductIds :
          (/\ ProcessStep
           /\ products'[p].currentStock /= products[p].currentStock
           /\ products'[p].currentStock >= products'[p].reorderPoint)
          => \A i \in DOMAIN alerts' :
                 (alerts'[i].productId = p /\ alerts'[i].type \in ReorderPointAlerts)
                 => alerts'[i].resolved]_vars

\* the event just processed resolved a LOW_STOCK or REORDER_NEEDED alert
\* that stood before it
ReorderPointAlertsResolvedWitness ==
    \E i \in DOMAIN alerts :
        /\ alerts[i].type \in ReorderPointAlerts
        /\ alerts[i].resolved
        /\ Notify("alert:resolved", i) \in Range(emitted)
        /\ Notify("alert:new", i) \notin Range(emitted)
        /\ products[alerts[i].productId].currentStock
               >= products[alerts[i].productId].reorderPoint

\* C7: an event whose product is not in the Ledger changes neither the
\* Ledger nor the History nor the Alert Registry.
UnknownProductChangesNothing ==
    [][\A topic \in Topics :
          (/\ Consume(topic)
           /\ topics[topic][offset[topic] + 1].value.productId \notin DOMAIN products)
          => (products' = products /\ events' = events /\ alerts' = alerts)]_vars

\* C8: the events of one product are processed in the order they were sent,
\* whatever their kinds: when a message of a product has been consumed, so
\* has every message of that product sent before it.
PerProductOrder ==
    \A t1, t2 \in Topics :
        \A i \in DOMAIN topics[t1], j \in DOMAIN topics[t2] :
            (/\ topics[t1][i].key = topics[t2][j].key
             /\ topics[t1][i].seq < topics[t2][j].seq
             /\ j <= offset[t2])
            => i <= offset[t1]

\* C9: the stock of a product changes only in a step of processEvent.
StockChangedByProcessEventOnly ==
    [][(\E p \in ProductIds :
            products'[p].currentStock /= products[p].currentStock)
       => ProcessStep]_vars

FiveMinutes == 5 * 60

\* the time the batch served by the i-th call was computed, were the cache
\* to keep a batch for five minutes and until it is cleared
RECURSIVE BatchTime(_)
BatchTime(i) ==
    IF i = 1 THEN calls[i].at
    ELSE IF calls[i].cleared \/ calls[i].at - BatchTime(i - 1) >= FiveMinutes
    THEN calls[i].at
    ELSE BatchTime(i - 1)

\* the i-th call finds no batch it may serve
Recomputes(i) ==
    i = 1 \/ calls[i].cleared \/ calls[i].at - BatchTime(i - 1) >= FiveMinutes

\* C10: calls of generateRecommendations within five minutes of the cached
\* batch return that batch, whatever happened to the stores; the first call
\* after the five minutes, or after clearCache, computes the batch anew from
\* the stores as they are then.
CacheServesBatchForFiveMinutes ==
    \A i \in DOMAIN calls :
        IF Recomputes(i) THEN calls[i].result = calls[i].fresh
        ELSE calls[i].result = calls[i - 1].result

\* a call served the cached batch although the stores had changed, and a
\* later call, after the five minutes, returned another batch
CacheServesBatchForFiveMinutesWitness ==
    \E i, j \in DOMAIN calls :
        /\ i < j
        /\ ~Recomputes(i)
        /\ calls[i].result /= calls[i].fresh
        /\ Recomputes(j)
        /\ ~calls[j].cleared
        /\ calls[j].result /= calls[i].result

\* a step of processEvent on an event of product p whose type is in types
ProcessesEventOf(p, types) ==
    \/ \E type \in SeedTypes \cap types, age \in SeedAges :
           \E q \in SeedQtys(type) : SeedEvent(type, p, q, age)
    \/ \E topic \in Topics :
           /\ Consume(topic)
           /\ topics[topic][offset[topic] + 1].value.productId = p
           /\ topics[topic][offset[topic] + 1].value.type \in types
    \/ \E topic \in Topics :
           /\ Redeliver(topic)
           /\ topics[topic][offset[topic]].value.productId = p
           /\ topics[topic][offset[topic]].value.type \in types

\* the stock of p is at least 10 and below its reorder point
BetweenCriticalAndReorderPoint(p) ==
    /\ products[p].currentStock >= 10
    /\ products[p].currentStock < products[p].reorderPoint

\* no critical alert of p is active, and a LOW_STOCK warning is
LowStockAlertStands(p) ==
    /\ Unresolved(p, "CRITICAL_LOW_STOCK") = {}
    /\ \E i \in Unresolved(p, "LOW_STOCK") : alerts[i].severity = "warning"

RapidDepletionResolvedManuallyOnly ==
    [][\A i \in DOMAIN alerts :
          (/\ alerts[i].type = "RAPID_DEPLETION"
           /\ ~alerts[i].resolved
           /\ alerts'[i].resolved)
          => ResolveAlert(i)]_vars

\* a RAPID_DEPLETION alert raised by an earlier event stands after an event
\* that brought the stock of its product back to the reorder point
RapidDepletionResolvedManuallyOnlyWitness ==
    \E i \in DOMAIN alerts :
        /\ alerts[i].type = "RAPID_DEPLETION"
        /\ ~alerts[i].resolved
        /\ Notify("product:update", alerts[i].productId) \in Range(emitted)
        /\ Notify("alert:new", i) \notin Range(emitted)
        /\ products[alerts[i].productId].currentStock
               >= products[alerts[i].productId].reorderPoint

\* C13: every transition of an alert from unresolved to resolved, by
\* auto-resolution or by a manual request, sets the resolution timestamp and
\* emits an alert:resolved notification with the id of the alert.
ResolutionStampedAndNotified ==
    [][\A i \in DOMAIN alerts :
          (~alerts[i].resolved /\ alerts'[i].resolved)
          => /\ alerts'[i].resolvedAt.isDate
             /\ Notify("alert:resolved", i) \in Range(emitted')]_vars

\* the next message of a topic
NextMessage(topic) == topics[topic][offset[topic] + 1]

\* a step of processMessage on the next message of a topic
Consumes(topic) == \E delivers \in BOOLEAN : ConsumeWhen(topic, delivers)

\* C14: when the notifications of an event are not delivered, the event is
\* stored, the stock updated and the alerts created and resolved exactly as
\* when they are delivered.
UndeliveredNotificationsChangeNothing ==
    [][\A topic \in Topics :
          (ConsumeWhen(topic, FALSE) /\ NextMessage(topic).value /= NotJSON)
          => LET st == processEvent(StoresWhen(TRUE), NextMessage(topic).value, now)
             IN  /\ products' = st.products
                 /\ events' = st.events
                 /\ alerts' = st.alerts]_vars

\* the one message sent was processed without a notification delivered: its
\* event is stored, the stock has moved and alerts were raised
UndeliveredNotificationsWitness ==
    /\ sent = 1
    /\ \E topic \in Topics : offset[topic] = 1 /\ topics[topic][1].value /= NotJSON
    /\ emitted = <<>>
    /\ DOMAIN events /= {}
    /\ DOMAIN alerts /= {}
    /\ \E p \in ProductIds : products[p].currentStock /= InitialProducts[p].currentStock

\* C15: a message is acknowledged only after its event was processed
\* successfully: when the handler hits an exception, the offset of the topic
\* does not move past the message.
AcknowledgedOnlyAfterSuccess ==
    [][\A topic \in Topics :
          (Consumes(topic) /\ NextMessage(topic).value = NotJSON)
          => offset'[topic] = offset[topic]]_vars

\* C16: a message whose event lacks a required field is rejected before it
\* reaches the core: no stock changes and the event is not stored.
IncompleteEventRejected ==
    [][\A topic \in Topics :
          (/\ Consumes(topic)
           /\ NextMessage(topic).value /= NotJSON
           /\ \/ NextMessage(topic).value.id = MissingId
              \/ NextMessage(topic).value.type = Undefined)
          => (products' = products /\ events' = events)]_vars

\* C17: a manual resolution changes an alert only when an alert of that id
\* exists and is unresolved: for an unknown id, and for an alert that is
\* resolved already, the alerts stay as they are (the resolution timestamp
\* included).
ManualResolutionOfUnresolvedOnly ==
    [][\A alertId \in 1..(Cardinality(DOMAIN alerts) + 1) :
          (/\ ResolveAlert(alertId)
           /\ \/ alertId \notin DOMAIN alerts
              \/ alerts[alertId].resolved)
          => alerts' = alerts]_vars

\* the events of the forecast product that the last call found in its
\* trailing 30 days, and the days they fall on
ForecastWindow ==
    {e \in forecast.events :
        /\ e.productId = forecast.product.id
        /\ eventDate(e) >= forecast.at - ThirtyDays}

ForecastBuckets == {eventDate(e) \div OneDay : e \in ForecastWindow}

\* C18: the confidence of every forecast lies between 0.1 and 0.95, and is
\* exactly 0.5 when the history of the product gives fewer than two days of
\* changes
ConfidenceWithinLimits ==
    forecast.called =>
        /\ forecast.result.confidence >= 10
        /\ forecast.result.confidence <= 95
        /\ Cardinality(ForecastBuckets) < 2 => forecast.result.confidence = 50

ConfidenceWithinLimitsWitness ==
    /\ forecast.called
    /\ Cardinality(ForecastBuckets) >= 2
    /\ forecast.result.confidence > 10
    /\ forecast.result.confidence < 95

ForecastOutputs(result) ==
    <<result.predictedStock7d, result.predictedDemand7d,
      result.reorderRecommended, result.confidence>>

\* C20: a forecast called with the product, the events and the horizon of the
\* call before it returns the predicted stock, the predicted demand, the
\* reorder flag and the confidence of that call, whenever it is made
ForecastReproducible ==
    [][\A p \in ProductIds, days \in ForecastDays :
          (/\ GetForecast(p, days)
           /\ forecast.called
           /\ forecast.product = products[p]
           /\ forecast.events = Range(events)
           /\ forecast.days = days) =>
              ForecastOutputs(forecast'.result) = ForecastOutputs(forecast.result)]_vars

\* the batch that a call of generateRecommendations computes in this step
Computes(batch) ==
    /\ GenerateRecommendations
    /\ ~cacheHit(cache, now)
    /\ batch = cache'[cacheKey].recommendations

\* C21: the suggested reorder quantity of every recommendation computed is at
\* most the free capacity of its product, maxCapacity - currentStock
ReorderQuantityWithinCapacity ==
    [][\A batch \in {cache'[k].recommendations : k \in DOMAIN cache'} :
          Computes(batch) =>
              \A i \in DOMAIN batch :
                  batch[i].suggestedReorderQuantity
                      <= products[batch[i].productId].maxCapacity
                             - products[batch[i].productId].currentStock]_vars

\* the recommendation text of product p in a batch, Undefined when the batch
\* has no entry for p
BatchEntry(batch, p) ==
    IF \E i \in DOMAIN batch : batch[i].productId = p
    THEN batch[CHOOSE i \in DOMAIN batch : batch[i].productId = p].recommendation
    ELSE Undefined

\* C22: the lookup of the recommendation of one product, which createAlert
\* makes for the alert it stores, goes through the batch cache: it returns the
\* product's entry of the cached batch while that batch is valid, and otherwise
\* leaves the batch of all products, computed at the time of the lookup, in the
\* cache
SingleLookupThroughCache ==
    [][\A id \in DOMAIN alerts' \ DOMAIN alerts :
          IF cacheHit(cache, now)
          THEN alerts'[id].aiRecommendation =
                   BatchEntry(cache[cacheKey].recommendations, alerts'[id].productId)
          ELSE /\ cacheHit(cache', now)
               /\ cache'[cacheKey].timestamp = now]_vars

\* the stock of p is at least 0 and below 10
CriticallyLow(p) ==
    /\ products[p].currentStock >= 0
    /\ products[p].currentStock < 10

\* a critical CRITICAL_LOW_STOCK alert of p is active
CriticalAlertStands(p) ==
    \E i \in Unresolved(p, "CRITICAL_LOW_STOCK") : alerts[i].severity = "critical"

\* the step creates a LOW_STOCK alert of p
CreatesLowStockAlert(p) ==
    \E i \in DOMAIN alerts' \ DOMAIN alerts :
        alerts'[i].productId = p /\ alerts'[i].type = "LOW_STOCK"

ReorderNeededStands ==
    [][\A p \in ProductIds :
          (/\ ProcessesEventOf(p, StockEventTypes)
           /\ products'[p].currentStock > 0
           /\ products'[p].currentStock <= products'[p].reorderPoint)
          => \E i \in DOMAIN alerts' :
                 /\ alerts'[i].productId = p
                 /\ alerts'[i].type = "REORDER_NEEDED"
                 /\ alerts'[i].severity = "warning"
                 /\ ~alerts'[i].resolved]_vars

\* the total SALE quantity of product p in the 30 days before now
SoldInThirtyDays(p) ==
    sumQuantity({e \in Range(events) :
                    /\ e.productId = p
                    /\ e.type = "SALE"
                    /\ eventDate(e) >= now - ThirtyDays})

\* daysUntilStockout < n for product p, with daysUntilStockout =
\* currentStock / (SoldInThirtyDays / 30), infinite when nothing was sold
StockoutWithin(p, n) ==
    /\ SoldInThirtyDays(p) > 0
    /\ 30 * products[p].currentStock < n * SoldInThirtyDays(p)

\* the priority and the confidence (in hundredths) of the first rule of the
\* ladder that product p matches
Ladder(p) ==
    CASE products[p].currentStock = 0 -> <<"critical", 95>>
      [] products[p].currentStock /= 0 /\ StockoutWithin(p, 3) -> <<"critical", 90>>
      [] products[p].currentStock /= 0 /\ ~StockoutWithin(p, 3) /\ StockoutWithin(p, 7)
             -> <<"high", 85>>
      [] /\ products[p].currentStock /= 0
         /\ ~StockoutWithin(p, 7)
         /\ products[p].currentStock <= products[p].reorderPoint -> <<"high", 80>>
      [] /\ products[p].currentStock /= 0
         /\ ~StockoutWithin(p, 7)
         /\ products[p].currentStock > products[p].reorderPoint
         /\ StockoutWithin(p, 14) -> <<"medium", 75>>
      [] OTHER -> <<"low", 70>>

ChangeNotifications == {"event:new", "product:update"}
AlertNotifications == {"alert:new", "alert:resolved"}

\* C26: in a step of processEvent the change notifications (the processed
\* event, the new product state) are emitted after the alert evaluation, so
\* after every notification the evaluation emits, and none is emitted for an
\* event whose product is not found
ChangeNotificationsLast ==
    [][ProcessStep =>
          /\ \A i, j \in DOMAIN emitted' :
                 (i < j /\ emitted'[j].event \in AlertNotifications)
                 => emitted'[i].event \notin ChangeNotifications
          /\ \A i \in DOMAIN emitted' :
                 emitted'[i].event = "event:new"
                 => events'[emitted'[i].payload].productId \in DOMAIN products]_vars

\* the events of product p recorded with a time in the 60 minutes before now
LastHour(p) ==
    {e \in Range(events) : e.productId = p /\ eventDate(e) >= now - OneHour}

\* the net stock change of p over the last hour is negative, and more than
\* 30% of the stock at the start of the hour
RapidlyDepleting(p) ==
    LET net == netChange(LastHour(p))
        stockAtWindowStart == products[p].currentStock - net
    IN  /\ net < 0
        /\ \/ stockAtWindowStart = 0
           \/ stockAtWindowStart > 0 /\ 10 * Abs(net) > 3 * stockAtWindowStart

\* the step creates a RAPID_DEPLETION alert of p
CreatesRapidDepletionAlert(p) ==
    \E i \in DOMAIN alerts' \ DOMAIN alerts :
        alerts'[i].productId = p /\ alerts'[i].type = "RAPID_DEPLETION"

\* C27: a RAPID_DEPLETION alert of a product is created only in processing a
\* SALE of it, and, when none is unresolved, exactly when the net change of
\* the product's events of the last 60 minutes is negative and more than 30%
\* of the stock at the start of the window
RapidDepletionExactly ==
    [][\A p \in ProductIds :
          /\ CreatesRapidDepletionAlert(p) => ProcessesEventOf(p, {"SALE"})
          /\ (ProcessesEventOf(p, {"SALE"}) /\ Unresolved(p, "RAPID_DEPLETION") = {})
             => (CreatesRapidDepletionAlert(p) <=> RapidlyDepleting(p)')]_vars

\* C28: in every state the stock of a product is its initial stock plus the
\* signed quantities of the events of the product that the event store holds
LedgerMatchesHistory ==
    \A p \in ProductIds :
        products[p].currentStock - InitialProducts[p].currentStock
            = netChange(StoredEvents(p, EventTypes))

\* C29: where the only events are those that PUT /products/:id publishes (a
\* pending message is then the event of the last request for its product, and
\* the stock of the product is still the X that the request set), processing
\* the event leaves the stock at X
PutAppliedOnce ==
    [][\A topic \in Topics, X \in PutStocks :
          (/\ Consume(topic)
           /\ products[NextMessage(topic).key].currentStock = X)
          => products'[NextMessage(topic).key].currentStock = X]_vars

\* C30: after updateConfig(c) on a running generator exactly one timer is
\* live, it is the timer of the generator, and the configuration is the
\* configuration before the call overridden by the fields of c
UpdateConfigKeepsOneTimerAndConfig ==
    [][\A c \in UpdateConfigs :
          (UpdateConfig(c) /\ generatorInterval /= Null)
          => /\ Cardinality(liveTimers(timers')) = 1
             /\ generatorInterval' /= Null
             /\ generatorInterval'.timer \in liveTimers(timers')
             /\ currentConfig' = merge(currentConfig, c)]_vars

====
